---------------------------- MODULE Spec2Model ----------------------------
(***************************************************************************)
(* A model of the JavaScript client of spider-clients: the line-buffered   *)
(* JSONL stream reader (utils/stream-reader.ts, utils/process-chunk.ts)    *)
(* and the request-dispatch layer of the Spider class (client.ts).         *)
(*                                                                         *)
(* Text is a sequence of one-character strings.  A response body is a      *)
(* sequence of bytes: an ASCII byte is written as its character, and the   *)
(* two bytes of the UTF-8 encoding of U+00E9 are written "xC3" and "xA9".  *)
(***************************************************************************)
EXTENDS Integers, Sequences, FiniteSets, TLC

\* ------------------------------------------------------------------ bounds

\* The largest number of lines in a response body of the stream-reader runs.
MaxLines == 3

\* The most lines in a body read to its end under fair scheduling.
LiveMaxLines == 2

\* The most lines in the body of each of two concurrent readers.
PairMaxLines == 1

\* The most resources in a list handed to transform.
MaxResources == 2

\* The callers of Supabase.init(), and the most calls they make in all.
NumCallers == 2

MaxInitCalls == 4

\* The largest number of lines in a response body of the client runs.
ApiMaxLines == 1

\* ------------------------------------------------------------- characters

NL == "\n"
QUOTE == "\""
LeadByte == "xC3"
ContByte == "xA9"
EAcute == "U+00E9"
Replacement == "U+FFFD"
FormFeed == "\f"

\* JSON's insignificant whitespace (RFC 8259), which JSON.parse skips.
JsonWs == {" ", "\t", "\r", "\n"}

\* The characters String.prototype.trim removes, as far as the model's
\* alphabet has them.
TrimWs == {" ", "\t", "\r", "\n", FormFeed}

Digit == {"0", "1", "2", "3", "4", "5", "6", "7", "8", "9"}

\* The line texts response bodies are built from.
RecA == <<"{", "\"", "a", "\"", ":", "1", "}">>
RecB == <<"{", "\"", "b", "\"", ":", "2", "}">>
NotJson == <<"N", "O", "T", "-", "J", "S", "O", "N">>
PaddedNum == <<" ", "1", "2", " ">>
AccentStr == <<"\"", "xC3", "xA9", "\"">>
BlankLine == <<" ">>
FeedPadded == <<FormFeed, "1">>

LineTexts == {RecA, RecB, NotJson, PaddedNum, AccentStr, BlankLine}

\* --------------------------------------------------------------- sequences

RECURSIVE IndexFrom(_, _, _)
IndexFrom(s, c, i) ==
  IF i > Len(s) THEN 0
  ELSE IF s[i] = c THEN i
  ELSE IndexFrom(s, c, i + 1)

\* String.prototype.indexOf for a one-character needle, 1-based; 0 is JS's -1.
IndexOf(s, c) == IndexFrom(s, c, 1)

RECURSIVE TrimLeft(_)
TrimLeft(s) ==
  IF s # <<>> /\ Head(s) \in TrimWs THEN TrimLeft(Tail(s)) ELSE s

RECURSIVE TrimRight(_)
TrimRight(s) ==
  IF s # <<>> /\ s[Len(s)] \in TrimWs
  THEN TrimRight(SubSeq(s, 1, Len(s) - 1))
  ELSE s

\* String.prototype.trim.
Trim(s) == TrimRight(TrimLeft(s))

\* ---------------------------------------------------------------- JSON.parse
\* JSON.parse on the model's alphabet: objects of at most one member, strings
\* without escapes, integers.  The parsed value is written as the JSON text
\* with the insignificant whitespace removed.

RECURSIVE SkipWs(_, _)
SkipWs(s, i) ==
  IF i <= Len(s) /\ s[i] \in JsonWs THEN SkipWs(s, i + 1) ELSE i

\* The index of the quote closing the string whose content starts at i, or 0.
RECURSIVE StringEnd(_, _)
StringEnd(s, i) ==
  IF i > Len(s) THEN 0
  ELSE IF s[i] = QUOTE THEN i
  ELSE IF s[i] \in {"\\", "\n", "\t", "\r", FormFeed} THEN 0
  ELSE StringEnd(s, i + 1)

RECURSIVE DigitsEnd(_, _)
DigitsEnd(s, i) ==
  IF i <= Len(s) /\ s[i] \in Digit THEN DigitsEnd(s, i + 1) ELSE i

ParseFail == [ok |-> FALSE, next |-> 0, val |-> <<>>]

ParseString(s, i) ==
  LET e == StringEnd(s, i + 1)
  IN IF e = 0 THEN ParseFail
     ELSE [ok |-> TRUE, next |-> e + 1, val |-> SubSeq(s, i, e)]

ParseNumber(s, i) ==
  LET j == IF s[i] = "-" THEN i + 1 ELSE i
      e == DigitsEnd(s, j)
  IN IF e = j THEN ParseFail
     ELSE IF s[j] = "0"
       THEN [ok |-> TRUE, next |-> j + 1, val |-> SubSeq(s, i, j)]
       ELSE [ok |-> TRUE, next |-> e, val |-> SubSeq(s, i, e - 1)]

RECURSIVE ParseValue(_, _)
ParseValue(s, i) ==
  IF i > Len(s) THEN ParseFail
  ELSE IF s[i] = QUOTE THEN ParseString(s, i)
  ELSE IF s[i] = "-" \/ s[i] \in Digit THEN ParseNumber(s, i)
  ELSE IF s[i] = "{" THEN
    LET j == SkipWs(s, i + 1)
    IN IF j > Len(s) THEN ParseFail
       ELSE IF s[j] = "}"
         THEN [ok |-> TRUE, next |-> j + 1, val |-> <<"{", "}">>]
       ELSE IF s[j] # QUOTE THEN ParseFail
       ELSE
         LET key == ParseString(s, j)
             k == SkipWs(s, key.next)
         IN IF ~key.ok \/ k > Len(s) THEN ParseFail
            ELSE IF s[k] # ":" THEN ParseFail
            ELSE
              LET v == ParseValue(s, SkipWs(s, k + 1))
                  m == SkipWs(s, v.next)
              IN IF ~v.ok \/ m > Len(s) THEN ParseFail
                 ELSE IF s[m] # "}" THEN ParseFail
                 ELSE [ok |-> TRUE, next |-> m + 1,
                       val |-> <<"{">> \o key.val \o <<":">> \o v.val \o <<"}">>]
  ELSE ParseFail

\* JSON.parse(text): ok is FALSE where JSON.parse throws a SyntaxError.
ParseText(text) ==
  LET v == ParseValue(text, SkipWs(text, 1))
  IN IF v.ok /\ SkipWs(text, v.next) = Len(text) + 1
     THEN [ok |-> TRUE, value |-> v.val]
     ELSE [ok |-> FALSE, value |-> <<>>]

\* The parse of each of the line texts, computed once: a line is parsed
\* many times over in the evaluation of a fairness condition.
ParsedTexts == [t \in LineTexts |-> ParseText(t)]

JSONParse(text) ==
  IF text \in DOMAIN ParsedTexts THEN ParsedTexts[text] ELSE ParseText(text)

\* ------------------------------------------------------------- TextDecoder
\* new TextDecoder() decodes UTF-8.  pending holds the bytes of a character
\* whose encoding is not complete yet (kept between calls under stream: true).

RECURSIVE DecodeBytes(_, _, _)
DecodeBytes(pending, bytes, out) ==
  IF bytes = <<>> THEN [pending |-> pending, text |-> out]
  ELSE
    LET b == Head(bytes)
    IN IF pending # <<>>
       THEN IF b = ContByte
            THEN DecodeBytes(<<>>, Tail(bytes), Append(out, EAcute))
            ELSE DecodeBytes(<<>>, bytes, Append(out, Replacement))
       ELSE IF b = LeadByte THEN DecodeBytes(<<b>>, Tail(bytes), out)
       ELSE IF b = ContByte
            THEN DecodeBytes(<<>>, Tail(bytes), Append(out, Replacement))
       ELSE DecodeBytes(<<>>, Tail(bytes), Append(out, b))

\* decoder.decode(value, { stream }): the text, and the decoder's state after.
Decode(pending, bytes, stream) ==
  LET d == DecodeBytes(pending, bytes, <<>>)
  IN IF stream \/ d.pending = <<>> THEN d
     ELSE [pending |-> <<>>, text |-> Append(d.text, Replacement)]

\* -------------------------------------------------------------------- state

VARIABLES
  resOk,            \* res.ok of the response handed to streamReader
  hasBody,          \* whether res.body has a reader
  content,          \* the bytes the response body delivers, in all
  pos,              \* how many of them reader.read() has delivered
  pending,          \* the TextDecoder's incomplete character
  buffer,           \* the line processor's buffer
  delivered,        \* the records passed to the callback, in call order
  srPc,             \* streamReader: "idle", "called", "reading", "resolved", "rejected"
  lastRead,         \* how the latest reader.read() settled
  splitInsideLine,  \* some chunk ended inside a line
  op,               \* the operation of the Spider client that was called
  wantStream,       \* its stream argument
  hasCb,            \* whether a callback was passed
  apiPc,            \* the call: "idle", "backoff", "streaming", "done"
  attempts,         \* backOff's attemptNumber: the fetch calls made so far
  requests,         \* the HTTP requests sent, in order
  status,           \* the status of the response fetch resolved with; 0 if none
  bodyParsed,       \* whether response.json() was called
  outcome,          \* how the call settled
  baseUrl,          \* APISchema["url"]
  apiKey,           \* this.apiKey of the client
  keyArg,           \* props.apiKey of `new Spider(props)`
  envKey,           \* process.env.SPIDER_API_KEY
  ctorPc,           \* "new", "constructed" or "thrown"
  params,           \* the params argument of the operation
  payload,          \* the body the operation hands to the helper
  firstArg,         \* the first argument of the operation
  query,            \* the entries of the URLSearchParams of the request
  readers,          \* two concurrent streamReader calls, each one's state
  processors,       \* the buffer of the line processor each call created
  instance,         \* Supabase.instance is set
  initPromise,      \* Supabase.initPromise: 0 when unset, else the run
  initJobs,         \* each run of init's async function: where it stands
  callers,          \* each caller of init(): how its promise stands
  awaited,          \* each caller of init(): the run its promise follows
  initCalls,        \* calls of init() so far
  anonKeyFetches,   \* fetches of the anon key so far
  clientsCreated,   \* calls of createClient so far
  cbThrows,         \* the records the caller's callback throws on
  chunks,           \* the values reader.read() delivers, one per read
  chunksRead,       \* how many of them the line-buffered reader has read
  perChunk          \* the per-chunk streamReader run on the same stream

streamVars ==
  <<resOk, hasBody, content, pos, pending, buffer, delivered, srPc, lastRead,
    splitInsideLine>>

apiVars ==
  <<op, wantStream, hasCb, apiPc, attempts, requests, status, bodyParsed,
    outcome>>

cfgVars == <<baseUrl, apiKey>>

callVars == <<keyArg, envKey, ctorPc, params, payload, firstArg, query>>

\* The state of the parts a run of the stream reader or an attempt of a
\* call leaves alone.
pairVars == <<readers, processors>>

supaVars ==
  <<instance, initPromise, initJobs, callers, awaited, initCalls,
    anonKeyFetches, clientsCreated>>

sideVars == <<cbThrows, chunks, chunksRead, perChunk>>

auxVars == <<callVars, pairVars, supaVars, sideVars>>

vars == <<streamVars, apiVars, cfgVars, auxVars>>

\* ------------------------------------------------------------ response bodies

RECURSIVE JoinLines(_)
JoinLines(ls) ==
  IF ls = <<>> THEN <<>> ELSE Head(ls) \o <<NL>> \o JoinLines(Tail(ls))

LineSeqs(n) == UNION {[1..k -> LineTexts] : k \in 0..n}

\* Every body of at most n lines; the last line may lack its newline.
Bodies(n) ==
  {JoinLines(ls) : ls \in LineSeqs(n)}
    \cup {SubSeq(JoinLines(ls), 1, Len(JoinLines(ls)) - 1) :
            ls \in LineSeqs(n) \ {<<>>}}

\* ------------------------------------------------------------ line processor

\* A parse error thrown out of the line processor instead of being caught.
CatchRethrows(line, acc) == [acc EXCEPT !.threw = TRUE]

\* A parse error answered by handing the unparsed line to the callback.
CatchForwardsRaw(line, acc) ==
  [acc EXCEPT !.delivered = Append(@, line)]

\* catch (_error) {}: the line is dropped, nothing else happens.
CatchError(line, acc) == acc

\* A callback called after the try block: what it throws leaves the
\* processor.
CallbackOutsideTry(record, acc) ==
  LET called == [acc EXCEPT !.delivered = Append(@, record)]
  IN IF record \in cbThrows THEN [called EXCEPT !.threw = TRUE] ELSE called

\* cb(record) inside the try block: the invocations are recorded in order,
\* and what the callback throws goes to the catch clause.
Callback(record, acc) ==
  LET called == [acc EXCEPT !.delivered = Append(@, record)]
  IN IF record \in cbThrows THEN CatchError(record, called) ELSE called

\* if (line.trim()) { try { cb(JSON.parse(line)) } catch (_error) {} }
EmitLine(line, acc) ==
  IF Trim(line) = <<>> THEN acc
  ELSE LET p == JSONParse(line)
       IN IF p.ok THEN Callback(p.value, acc) ELSE CatchError(line, acc)

\* A processor that takes one line out of the buffer per chunk: an if where
\* the code has a while.
DrainFirstLine(acc) ==
  LET boundary == IndexOf(acc.buffer, NL)
  IN IF boundary = 0 \/ acc.threw THEN acc
     ELSE EmitLine(SubSeq(acc.buffer, 1, boundary - 1),
                   [acc EXCEPT !.buffer =
                      SubSeq(acc.buffer, boundary + 1, Len(acc.buffer))])

\* while ((boundary = buffer.indexOf("\n")) !== -1) { ... }
RECURSIVE DrainLines(_)
DrainLines(acc) ==
  LET boundary == IndexOf(acc.buffer, NL)
  IN IF boundary = 0 \/ acc.threw THEN acc
     ELSE DrainLines(
            EmitLine(SubSeq(acc.buffer, 1, boundary - 1),
                     [acc EXCEPT !.buffer =
                        SubSeq(acc.buffer, boundary + 1, Len(acc.buffer))]))

\* A processor that forgets the text of the earlier chunks.
AppendChunkOverwrites(buf, chunk) == chunk

\* buffer += chunk.toString()
AppendChunk(buf, chunk) == buf \o chunk

\* The value JSON.parse gives for the text null.
Null == <<"n", "u", "l", "l">>

\* A processor that keeps the lines it has delivered in its buffer.
ProcessChunkRescan(buf, chunk, out) ==
  [DrainLines([buffer |-> AppendChunk(buf, chunk), delivered |-> out,
               threw |-> FALSE])
     EXCEPT !.buffer = AppendChunk(buf, chunk)]

\* A processor that answers an empty chunk with a null placeholder.
ProcessChunkNullOnEmpty(buf, chunk, out) ==
  IF chunk = <<>>
  THEN [buffer |-> buf, delivered |-> Append(out, Null), threw |-> FALSE]
  ELSE DrainLines([buffer |-> AppendChunk(buf, chunk), delivered |-> out,
                   threw |-> FALSE])

\* The function createJsonLineProcessor returns, applied to one chunk.
ProcessChunk(buf, chunk, out) ==
  DrainLines([buffer |-> AppendChunk(buf, chunk), delivered |-> out,
              threw |-> FALSE])

\* --------------------------------------------------------------- streamReader

\* if (res.ok) { const reader = res.body?.getReader(); ... if (reader) {
StreamReaderEnter ==
  /\ srPc = "called"
  /\ srPc' = IF resOk /\ hasBody THEN "reading" ELSE "resolved"
  /\ UNCHANGED <<resOk, hasBody, content, pos, pending, buffer, delivered,
                 lastRead, splitInsideLine>>
  /\ UNCHANGED <<apiVars, cfgVars, auxVars>>

\* reader.read() settles with { done: false, value }, value being the next
\* k bytes of the body: decode, processChunk.
ReadBytes(k) ==
  /\ srPc = "reading"
  /\ \E d \in {Decode(pending, SubSeq(content, pos + 1, pos + k), TRUE)} :
     \E r \in {ProcessChunk(buffer, d.text, delivered)} :
          /\ pos' = pos + k
          /\ pending' = d.pending
          /\ buffer' = r.buffer
          /\ delivered' = r.delivered
          /\ srPc' = IF r.threw THEN "rejected" ELSE "reading"
          /\ splitInsideLine' =
               (splitInsideLine \/ (pos + k < Len(content) /\ content[pos + k] # NL))
  /\ lastRead' = "chunk"
  /\ UNCHANGED <<resOk, hasBody, content>>
  /\ UNCHANGED <<apiVars, cfgVars, callVars, pairVars, supaVars, cbThrows>>

\* A read of a body that arrives cut anywhere.
ReadChunk ==
  /\ pos < Len(content)
  /\ \E k \in 1..(Len(content) - pos) : ReadBytes(k)
  /\ UNCHANGED <<chunks, chunksRead, perChunk>>

\* A loop that has no break on done: it flushes and reads again.
ReadDoneKeepsReading ==
  /\ srPc = "reading"
  /\ pos = Len(content)
  /\ \E d \in {Decode(pending, <<>>, FALSE)} :
     \E r \in {ProcessChunk(buffer, d.text, delivered)} :
        /\ pending' = d.pending
        /\ buffer' = r.buffer
        /\ delivered' = r.delivered
  /\ lastRead' = "done"
  /\ UNCHANGED <<srPc, resOk, hasBody, content, pos, splitInsideLine>>
  /\ UNCHANGED <<apiVars, cfgVars, auxVars>>

\* reader.read() settles with { done: true }: break, then
\* processChunk(decoder.decode(new Uint8Array(), { stream: false })).
ReadDone ==
  /\ srPc = "reading"
  /\ pos = Len(content)
  /\ \E d \in {Decode(pending, <<>>, FALSE)} :
     \E r \in {ProcessChunk(buffer, d.text, delivered)} :
        /\ pending' = d.pending
        /\ buffer' = r.buffer
        /\ delivered' = r.delivered
        /\ srPc' = IF r.threw THEN "rejected" ELSE "resolved"
  /\ lastRead' = "done"
  /\ UNCHANGED <<resOk, hasBody, content, pos, splitInsideLine>>
  /\ UNCHANGED <<apiVars, cfgVars, auxVars>>

\* A reader that catches the failed read, tries what it has buffered as a
\* last line and resolves.
ReadFailureSwallowed(buf, out) ==
  [pc |-> "resolved",
   delivered |-> DrainLines([buffer |-> Append(buf, NL), delivered |-> out,
                             threw |-> FALSE]).delivered]

\* streamReader has no try around `await reader.read()`: a rejected read
\* rejects the promise streamReader returned, and nothing runs after it.
ReadFailure(buf, out) == [pc |-> "rejected", delivered |-> out]

\* reader.read() rejects (the connection drops).
ReadError ==
  /\ srPc = "reading"
  /\ LET r == ReadFailure(buffer, delivered)
     IN /\ srPc' = r.pc
        /\ delivered' = r.delivered
  /\ lastRead' = "error"
  /\ UNCHANGED <<resOk, hasBody, content, pos, pending, buffer,
                 splitInsideLine>>
  /\ UNCHANGED <<apiVars, cfgVars, auxVars>>

StreamNext == StreamReaderEnter \/ ReadChunk \/ ReadDone \/ ReadError

NoOutcome == [kind |-> "pending", action |-> <<>>, status |-> 0]

\* url of APISchema as the module defines it.
DefaultBaseUrl == "https://api.spider.cloud"

\* What an absent argument or environment variable reads as.
Undefined == "<undefined>"

\* No client is being constructed and no payload built.
CallIdle ==
  /\ keyArg = Undefined
  /\ envKey = Undefined
  /\ ctorPc = "new"
  /\ params = <<>>
  /\ payload = <<>>
  /\ firstArg = <<>>
  /\ query = <<>>

\* The same stream is not being read by the two streamReader versions.
PerChunkIdle ==
  [pc |-> "idle", read |-> 0, pending |-> <<>>, delivered |-> <<>>]

ChunksIdle ==
  /\ chunks = <<>>
  /\ chunksRead = 0
  /\ perChunk = PerChunkIdle

\* The caller's callback returns normally on every record.
NoThrow == cbThrows = {}

\* No two readers run side by side.
PairIdle ==
  /\ readers = <<>>
  /\ processors = <<>>

\* The Supabase class as loaded, init() not called.
SupaIdle ==
  /\ instance = FALSE
  /\ initPromise = 0
  /\ initJobs = <<>>
  /\ callers = <<>>
  /\ awaited = <<>>
  /\ initCalls = 0
  /\ anonKeyFetches = 0
  /\ clientsCreated = 0

\* No call of the client is under way, and no client was constructed.
ApiIdle ==
  /\ CallIdle
  /\ PairIdle
  /\ SupaIdle
  /\ ChunksIdle
  /\ baseUrl = DefaultBaseUrl
  /\ apiKey = ""
  /\ op = "none"
  /\ wantStream = FALSE
  /\ hasCb = FALSE
  /\ apiPc = "idle"
  /\ attempts = 0
  /\ requests = <<>>
  /\ status = 0
  /\ bodyParsed = FALSE
  /\ outcome = NoOutcome

\* streamReader(res, cb) called on a response of any kind.
Init ==
  /\ NoThrow
  /\ ApiIdle
  /\ resOk \in BOOLEAN
  /\ hasBody \in BOOLEAN
  /\ content \in Bodies(MaxLines)
  /\ pos = 0
  /\ pending = <<>>
  /\ buffer = <<>>
  /\ delivered = <<>>
  /\ srPc = "called"
  /\ lastRead = "none"
  /\ splitInsideLine = FALSE

Next == StreamNext

\* The callbacks tried: one that never throws, one that throws on a record.
CallbackThrowSets == {{}, {RecA}}

\* streamReader on a stream whose reads all settle with a chunk or with
\* done: the event loop runs a continuation that is ready.
LiveInit ==
  /\ ApiIdle
  /\ cbThrows \in CallbackThrowSets
  /\ resOk \in BOOLEAN
  /\ hasBody \in BOOLEAN
  /\ content \in Bodies(LiveMaxLines)
  /\ pos = 0
  /\ pending = <<>>
  /\ buffer = <<>>
  /\ delivered = <<>>
  /\ srPc = "called"
  /\ lastRead = "none"
  /\ splitInsideLine = FALSE

LiveNext == StreamReaderEnter \/ ReadChunk \/ ReadDone

SpecLive == LiveInit /\ [][LiveNext]_vars /\ WF_vars(LiveNext)

Spec == Init /\ [][Next]_vars

\* -------------------------------------------------------------- the client
\* The operations of Spider that go through _apiPost, _apiGet and _apiDelete.

\* The credentials a client is constructed with.
Credentials == {"key-A", "key-B"}

\* numOfAttempts of every backOff call.
NumOfAttempts == 5

\* The statuses a response may carry.
Statuses == {200, 204, 299, 300, 401, 404, 500}

Ops ==
  {"scrapeUrl", "crawlUrl", "links", "getCredits", "deleteData",
   "createSignedUrl", "download"}

DualModeOps == {"crawlUrl", "links"}

\* The transport helper each operation calls.
Helper(o) ==
  CASE o \in {"scrapeUrl", "crawlUrl", "links"} -> "_apiPost"
    [] o = "getCredits" -> "_apiGet"
    [] o = "deleteData" -> "_apiDelete"
    [] o \in {"createSignedUrl", "download"} -> "fetch"
    [] o = "transform" -> "_apiPost"

\* The APIRoutes value each operation passes as endpoint.
Endpoint(o) ==
  CASE o \in {"scrapeUrl", "crawlUrl"} -> "crawl"
    [] o = "links" -> "links"
    [] o = "getCredits" -> "data/credits"
    [] o = "deleteData" -> "data"
    [] o = "createSignedUrl" -> "APIRoutes.DataSignUrl"
    [] o = "download" -> "APIRoutes.DataDownload"
    [] o = "transform" -> "transform"

Method(o) ==
  CASE Helper(o) = "_apiPost" -> "POST"
    [] Helper(o) = "_apiGet" -> "GET"
    [] Helper(o) = "_apiDelete" -> "DELETE"
    [] Helper(o) = "fetch" -> "GET"

\* A dispatch that looks at the stream flag alone.
JsonlIgnoresCallback == wantStream

\* const jsonl = stream && cb
Jsonl == wantStream /\ hasCb

\* jsonl ? this.prepareHeadersJsonL : this.prepareHeaders
ContentType(jsonl) ==
  IF jsonl THEN "application/jsonl" ELSE "application/json"

\* The fetch call of one attempt: the URL is built from APISchema["url"]
\* when the attempt is made; createSignedUrl leaves the version out of it.
Request(o, jsonl) ==
  [method |-> Method(o), endpoint |-> Endpoint(o),
   contentType |-> ContentType(Helper(o) = "_apiPost" /\ jsonl),
   base |-> baseUrl, versioned |-> (o # "createSignedUrl"),
   authorization |-> <<"Bearer", apiKey>>]

\* A response that counts as a success up to the redirects.
ResponseOkBelow400(s) == s < 400

\* response.ok
ResponseOk(s) == s \in 200..299

\* A retry policy that also retries a response of an error status.
RetriesErrorStatus(s) == s >= 400

\* backOff retries when the request function rejects; fetch resolves with
\* a response of any status, so no response is retried.
RetriesResponse(s) == FALSE

\* A limit that allows one attempt more.
AttemptLimitOffByOne(n) == n > NumOfAttempts

\* backOff gives up once attemptNumber has reached numOfAttempts.
AttemptLimitReached(n) == n >= NumOfAttempts

\* this.handleError(response, action): throws an Error whose message holds
\* the action and response.status.
HandleError(verb, o, s) ==
  [kind |-> "httpError", action |-> <<verb, Endpoint(o)>>, status |-> s]

Settled(kind) == [kind |-> kind, action |-> <<>>, status |-> 0]

\* fetch rejects (a network error): backOff retries until the limit, then
\* rejects with the last error, which the helper and the operation pass on.
\* createSignedUrl and download call fetch without backOff: the rejection
\* is theirs at once.
FetchFails ==
  /\ apiPc = "backoff"
  /\ attempts' = attempts + 1
  /\ requests' = Append(requests, Request(op, Jsonl))
  /\ IF Helper(op) = "fetch" \/ AttemptLimitReached(attempts + 1)
     THEN /\ apiPc' = "done"
          /\ outcome' = Settled("transportError")
     ELSE UNCHANGED <<apiPc, outcome>>
  /\ UNCHANGED <<op, wantStream, hasCb, status, bodyParsed>>
  /\ UNCHANGED <<streamVars, cfgVars, auxVars>>

\* The helper's code after `await backOff(...)`, and the operation's code
\* after `await this._apiPost(...)`, for a response of status s.
PostReturns(s) ==
  IF ~wantStream
  THEN IF ResponseOk(s)
       THEN /\ bodyParsed' = TRUE
            /\ apiPc' = "done"
            /\ outcome' \in {Settled("json"), Settled("syntaxError")}
            /\ UNCHANGED <<srPc, resOk>>
       ELSE /\ apiPc' = "done"
            /\ outcome' = HandleError("post to", op, s)
            /\ UNCHANGED <<bodyParsed, srPc, resOk>>
  ELSE IF Jsonl
       THEN /\ apiPc' = "streaming"
            /\ srPc' = "called"
            /\ resOk' = ResponseOk(s)
            /\ UNCHANGED <<bodyParsed, outcome>>
       ELSE /\ apiPc' = "done"
            /\ outcome' = Settled("response")
            /\ UNCHANGED <<bodyParsed, srPc, resOk>>

GetReturns(s) ==
  /\ apiPc' = "done"
  /\ IF ResponseOk(s)
     THEN /\ bodyParsed' = TRUE
          /\ outcome' \in {Settled("json"), Settled("syntaxError")}
     ELSE /\ outcome' = HandleError("get from", op, s)
          /\ UNCHANGED bodyParsed
  /\ UNCHANGED <<srPc, resOk>>

DeleteReturns(s) ==
  /\ apiPc' = "done"
  /\ outcome' = IF ResponseOk(s) THEN Settled("response")
                ELSE HandleError("delete from", op, s)
  /\ UNCHANGED <<bodyParsed, srPc, resOk>>

\* createSignedUrl and download after `await fetch(...)`.
PlainReturns(s) ==
  /\ apiPc' = "done"
  /\ IF ResponseOk(s)
     THEN /\ bodyParsed' = (op = "createSignedUrl")
          /\ outcome' \in (IF op = "createSignedUrl"
                           THEN {Settled("json"), Settled("syntaxError")}
                           ELSE {Settled("text"), Settled("blob")})
     ELSE /\ outcome' =
               [kind |-> "httpError",
                action |-> IF op = "createSignedUrl"
                           THEN <<"Failed to sign files">>
                           ELSE <<"get from", Endpoint(op)>>,
                status |-> s]
          /\ UNCHANGED bodyParsed
  /\ UNCHANGED <<srPc, resOk>>

\* fetch resolves with a response, of whatever status: backOff resolves
\* with it and the helper goes on.
FetchResponds ==
  /\ apiPc = "backoff"
  /\ \E s \in Statuses :
       /\ status' = s
       /\ IF /\ Helper(op) # "fetch"
             /\ RetriesResponse(s)
             /\ ~AttemptLimitReached(attempts + 1)
          THEN UNCHANGED <<apiPc, outcome, bodyParsed, srPc, resOk>>
          ELSE CASE Helper(op) = "_apiPost" -> PostReturns(s)
                 [] Helper(op) = "_apiGet" -> GetReturns(s)
                 [] Helper(op) = "_apiDelete" -> DeleteReturns(s)
                 [] Helper(op) = "fetch" -> PlainReturns(s)
  /\ attempts' = attempts + 1
  /\ requests' = Append(requests, Request(op, Jsonl))
  /\ UNCHANGED <<op, wantStream, hasCb>>
  /\ UNCHANGED <<hasBody, content, pos, pending, buffer, delivered, lastRead,
                 splitInsideLine>>
  /\ UNCHANGED <<cfgVars, auxVars>>

\* An operation that returns as soon as the reader has been called.
ReaderStarted(pc) == pc # "idle"

\* await streamReader(res, cb) goes on when the reader's promise settled.
ReaderSettled(pc) == pc \in {"resolved", "rejected"}

\* return await streamReader(res, cb): the operation settles as the reader.
StreamSettles ==
  /\ apiPc = "streaming"
  /\ ReaderSettled(srPc)
  /\ apiPc' = "done"
  /\ outcome' = IF srPc = "resolved" THEN Settled("void")
                ELSE Settled("streamError")
  /\ UNCHANGED <<op, wantStream, hasCb, attempts, requests, status,
                 bodyParsed>>
  /\ UNCHANGED <<streamVars, cfgVars, auxVars>>

\* The base URL setBaseUrl leaves without its `if (url)`.
NewBaseUrlUnguarded(cur, url) == url

\* if (url) { APISchema["url"] = url; }
NewBaseUrl(cur, url) == IF url # "" THEN url ELSE cur

\* The URLs setBaseUrl is called with.
BaseUrlArgs == {"", "http://localhost:3000"}

\* setBaseUrl(url), which any code of the process may call at any time;
\* the calls that matter are those made while a call of the client still
\* has attempts to make.
SetBaseUrl ==
  /\ apiPc = "backoff"
  /\ \E url \in BaseUrlArgs : baseUrl' = NewBaseUrl(baseUrl, url)
  /\ UNCHANGED <<apiKey, streamVars, apiVars, auxVars>>

ApiNext ==
  FetchFails \/ FetchResponds \/ StreamSettles \/ SetBaseUrl \/ StreamNext

\* One operation of the client has been called.
ApiInit ==
  /\ NoThrow
  /\ baseUrl = DefaultBaseUrl
  /\ apiKey = "key-A"
  /\ keyArg = apiKey
  /\ envKey = Undefined
  /\ ctorPc = "constructed"
  /\ params = <<>>
  /\ payload = <<>>
  /\ firstArg = <<>>
  /\ query = <<>>
  /\ PairIdle
  /\ SupaIdle
  /\ ChunksIdle
  /\ op \in Ops
  /\ wantStream \in (IF op \in DualModeOps THEN BOOLEAN ELSE {FALSE})
  /\ hasCb \in (IF op \in DualModeOps THEN BOOLEAN ELSE {FALSE})
  /\ apiPc = "backoff"
  /\ attempts = 0
  /\ requests = <<>>
  /\ status = 0
  /\ bodyParsed = FALSE
  /\ outcome = NoOutcome
  /\ resOk = FALSE
  /\ hasBody \in (IF Jsonl THEN BOOLEAN ELSE {TRUE})
  /\ content \in (IF Jsonl THEN Bodies(ApiMaxLines) ELSE {<<>>})
  /\ pos = 0
  /\ pending = <<>>
  /\ buffer = <<>>
  /\ delivered = <<>>
  /\ srPc = "idle"
  /\ lastRead = "none"
  /\ splitInsideLine = FALSE

SpecApi == ApiInit /\ [][ApiNext]_vars

\* ------------------------------------------- construction and payload

\* The values JavaScript takes for false in a condition, of those a
\* credential can have.
Falsy(v) == v \in {Undefined, "null", ""}

\* a ?? b, which keeps an empty string.
NullishOr(a, b) == IF a \in {Undefined, "null"} THEN b ELSE a

\* a || b
Or(a, b) == IF Falsy(a) THEN b ELSE a

KeyArgs == {Undefined, "null", ""} \cup Credentials

EnvValues == {Undefined, ""} \cup Credentials

\* new Spider(props)
Construct ==
  /\ ctorPc = "new"
  /\ apiKey' = Or(keyArg, envKey)
  /\ ctorPc' = IF Falsy(Or(keyArg, envKey)) THEN "thrown" ELSE "constructed"
  /\ UNCHANGED <<baseUrl, keyArg, envKey, params, payload, streamVars, apiVars>>
  /\ UNCHANGED <<firstArg, query>>
  /\ UNCHANGED <<pairVars, supaVars, sideVars>>

\* The keys of the params of a call, and the values of each.
ParamKeys == {"limit", "return_format", "url"}

FullParams ==
  [limit : {0, 5}, return_format : {"markdown", "raw"},
   url : {"https://other.example"}]

ParamsArgs == {[k \in S |-> f[k]] : f \in FullParams, S \in SUBSET ParamKeys}

\* { ...a, ...b }
Spread(a, b) ==
  [k \in DOMAIN a \cup DOMAIN b |-> IF k \in DOMAIN b THEN b[k] ELSE a[k]]

\* A payload whose default is written after the spread of params.
ScrapePayloadDefaultLast(url, ps) == Spread(ps, [url |-> url, limit |-> 1])

\* { url: url, limit: 1, ...params }
ScrapePayload(url, ps) == Spread([url |-> url, limit |-> 1], ps)

ScrapedUrl == "https://spider.cloud"

\* client.scrapeUrl(url, params), up to the first attempt of _apiPost.
ScrapeUrl ==
  /\ ctorPc = "constructed"
  /\ op = "none"
  /\ payload' = ScrapePayload(ScrapedUrl, params)
  /\ op' = "scrapeUrl"
  /\ apiPc' = "backoff"
  /\ UNCHANGED <<wantStream, hasCb, attempts, requests, status, bodyParsed,
                 outcome>>
  /\ UNCHANGED <<keyArg, envKey, ctorPc, params, cfgVars, streamVars>>
  /\ UNCHANGED <<firstArg, query>>
  /\ UNCHANGED <<pairVars, supaVars, sideVars>>

CallNext == Construct \/ ScrapeUrl \/ FetchFails \/ FetchResponds

\* A program is about to construct a client and to scrape one page.
CallInit ==
  /\ NoThrow
  /\ keyArg \in KeyArgs
  /\ envKey \in EnvValues
  /\ params \in ParamsArgs
  /\ ctorPc = "new"
  /\ payload = <<>>
  /\ firstArg = <<>>
  /\ query = <<>>
  /\ PairIdle
  /\ SupaIdle
  /\ ChunksIdle
  /\ baseUrl = DefaultBaseUrl
  /\ apiKey = ""
  /\ op = "none"
  /\ wantStream = FALSE
  /\ hasCb = FALSE
  /\ apiPc = "idle"
  /\ attempts = 0
  /\ requests = <<>>
  /\ status = 0
  /\ bodyParsed = FALSE
  /\ outcome = NoOutcome
  /\ resOk = FALSE
  /\ hasBody = TRUE
  /\ content = <<>>
  /\ pos = 0
  /\ pending = <<>>
  /\ buffer = <<>>
  /\ delivered = <<>>
  /\ srPc = "idle"
  /\ lastRead = "none"
  /\ splitInsideLine = FALSE

SpecCall == CallInit /\ [][CallNext]_vars

\* ------------------------------------------ transform, createSignedUrl

\* The lists of resources a caller hands over.
Resources == {"<p>a</p>", "<p>b</p>"}

ResourceLists == UNION {[1..n -> Resources] : n \in 0..MaxResources}

\* The params of transform: data absent or a list, return_format absent or
\* given.
TransformParams ==
  {[k \in S |-> f[k]] :
     f \in [data : ResourceLists, return_format : {"markdown"}],
     S \in SUBSET {"data", "return_format"}}

\* { ...params, data: params.data && Array.isArray(params.data) &&
\*   params.data?.length ? params.data : data }
TransformBody(data, ps) ==
  Spread(ps,
         [data |-> IF "data" \in DOMAIN ps /\ Len(ps["data"]) # 0
                   THEN ps["data"] ELSE data])

\* client.transform(data, params), up to the first attempt of _apiPost.
Transform ==
  /\ ctorPc = "constructed"
  /\ op = "none"
  /\ \E data \in ResourceLists : \E ps \in TransformParams :
       /\ firstArg' = data
       /\ params' = ps
       /\ payload' = TransformBody(data, ps)
  /\ op' = "transform"
  /\ apiPc' = "backoff"
  /\ UNCHANGED <<wantStream, hasCb, attempts, requests, status, bodyParsed,
                 outcome>>
  /\ UNCHANGED <<keyArg, envKey, ctorPc, query, cfgVars, streamVars>>
  /\ UNCHANGED <<pairVars, supaVars, sideVars>>

\* Number.prototype.toString for a natural number: its decimal digits.
DecimalDigits == <<"0", "1", "2", "3", "4", "5", "6", "7", "8", "9">>

RECURSIVE NumberToString(_)
NumberToString(n) ==
  IF n < 10 THEN DecimalDigits[n + 1]
  ELSE NumberToString(n \div 10) \o DecimalDigits[(n % 10) + 1]

\* The options of createSignedUrl that are numbers.
NumericOptions == {"page", "limit", "expiresIn"}

\* The values JavaScript takes for false, of those an option can have:
\* the number 0, the empty string, undefined.
FalsyOption(k, v) ==
  IF k \in NumericOptions THEN v = 0 ELSE v \in {Undefined, ""}

\* What URLSearchParams holds for an option: the string itself, or the
\* digits page.toString() gives.
OptionText(k, v) == IF k \in NumericOptions THEN NumberToString(v) ELSE v

\* ...(v && { k: v }): an entry when the value is truthy, none otherwise.
EntryWhenTruthy(k, v) ==
  IF FalsyOption(k, v) THEN <<>> ELSE <<<<k, OptionText(k, v)>>>>

\* The entries for the keys in the order of the object literal.
RECURSIVE Entries(_, _)
Entries(keys, given) ==
  IF keys = <<>> THEN <<>>
  ELSE (IF Head(keys) \in DOMAIN given
        THEN EntryWhenTruthy(Head(keys), given[Head(keys)])
        ELSE <<>>)
       \o Entries(Tail(keys), given)

\* new URLSearchParams({ ...(url && { url }), ...(domain && { domain }),
\*   ...(pathname && ...), ...(page && ...), ...(limit && ...),
\*   ...(expiresIn && ...) })
SignUrlQuery(url, options) ==
  Entries(<<"url", "domain", "pathname", "page", "limit", "expiresIn">>,
          IF url = Undefined THEN options
          ELSE Spread(options, [url |-> url]))

SignUrlArgs == {Undefined, "spider.cloud"}

SignUrlOptions ==
  {[k \in S |-> f[k]] :
     f \in [domain : {"spider.cloud"}, pathname : {"/docs"},
            page : {0, 2}, limit : {20}, expiresIn : {0, 3600}],
     S \in SUBSET {"domain", "pathname", "page", "limit", "expiresIn"}}

\* client.createSignedUrl(url, options), up to its fetch.
CreateSignedUrl ==
  /\ ctorPc = "constructed"
  /\ op = "none"
  /\ \E url \in SignUrlArgs : \E options \in SignUrlOptions :
       /\ firstArg' = url
       /\ params' = options
       /\ query' = SignUrlQuery(url, options)
  /\ op' = "createSignedUrl"
  /\ apiPc' = "backoff"
  /\ UNCHANGED <<wantStream, hasCb, attempts, requests, status, bodyParsed,
                 outcome>>
  /\ UNCHANGED <<keyArg, envKey, ctorPc, payload, cfgVars, streamVars>>
  /\ UNCHANGED <<pairVars, supaVars, sideVars>>

BuildNext == Transform \/ CreateSignedUrl \/ FetchFails \/ FetchResponds

\* A constructed client, before a call of transform or createSignedUrl.
BuildInit ==
  /\ NoThrow
  /\ keyArg = "key-A"
  /\ envKey = Undefined
  /\ ctorPc = "constructed"
  /\ apiKey = "key-A"
  /\ params = <<>>
  /\ payload = <<>>
  /\ firstArg = <<>>
  /\ query = <<>>
  /\ PairIdle
  /\ SupaIdle
  /\ ChunksIdle
  /\ baseUrl = DefaultBaseUrl
  /\ op = "none"
  /\ wantStream = FALSE
  /\ hasCb = FALSE
  /\ apiPc = "idle"
  /\ attempts = 0
  /\ requests = <<>>
  /\ status = 0
  /\ bodyParsed = FALSE
  /\ outcome = NoOutcome
  /\ resOk = FALSE
  /\ hasBody = TRUE
  /\ content = <<>>
  /\ pos = 0
  /\ pending = <<>>
  /\ buffer = <<>>
  /\ delivered = <<>>
  /\ srPc = "idle"
  /\ lastRead = "none"
  /\ splitInsideLine = FALSE

SpecBuild == BuildInit /\ [][BuildNext]_vars

\* -------------------------------------------------- two readers at once

Readers == {1, 2}

PairTexts == {RecA, NotJson}

PairLineSeqs(n) == UNION {[1..k -> PairTexts] : k \in 0..n}

\* The bodies of the two responses; the last line may lack its newline.
PairBodies(n) ==
  {JoinLines(ls) : ls \in PairLineSeqs(n)}
    \cup {SubSeq(JoinLines(ls), 1, Len(JoinLines(ls)) - 1) :
            ls \in PairLineSeqs(n) \ {<<>>}}

\* One buffer at module level, which every call appends to.
ModuleLevelBuffer(self) == 1

\* const processChunk = createJsonLineProcessor(cb) inside streamReader:
\* every call creates its own processor, whose `let buffer` is its own.
ProcessorOf(self) == self

\* reader.read() of one of the two calls settles with a chunk.
PairReadChunk ==
  /\ \E self \in {c \in Readers : readers[c].pc = "reading"} :
     \E k \in 1..(Len(readers[self].content) - readers[self].pos) :
     \E d \in {Decode(readers[self].pending,
                      SubSeq(readers[self].content, readers[self].pos + 1,
                             readers[self].pos + k), TRUE)} :
     \E r \in {ProcessChunk(processors[ProcessorOf(self)], d.text,
                            readers[self].delivered)} :
        /\ readers' =
             [readers EXCEPT ![self] =
                [@ EXCEPT !.pos = @ + k, !.pending = d.pending,
                          !.delivered = r.delivered,
                          !.pc = IF r.threw THEN "rejected" ELSE "reading"]]
        /\ processors' = [processors EXCEPT ![ProcessorOf(self)] = r.buffer]
  /\ UNCHANGED <<streamVars, apiVars, cfgVars, callVars, supaVars, sideVars>>

\* reader.read() of one of the two calls settles with { done: true }.
PairReadDone ==
  /\ \E self \in {c \in Readers : /\ readers[c].pc = "reading"
                                  /\ readers[c].pos = Len(readers[c].content)} :
     \E d \in {Decode(readers[self].pending, <<>>, FALSE)} :
     \E r \in {ProcessChunk(processors[ProcessorOf(self)], d.text,
                            readers[self].delivered)} :
        /\ readers' =
             [readers EXCEPT ![self] =
                [@ EXCEPT !.pending = d.pending, !.delivered = r.delivered,
                          !.pc = IF r.threw THEN "rejected" ELSE "resolved"]]
        /\ processors' = [processors EXCEPT ![ProcessorOf(self)] = r.buffer]
  /\ UNCHANGED <<streamVars, apiVars, cfgVars, callVars, supaVars, sideVars>>

\* reader.read() of one of the two calls rejects, or its stream is aborted.
PairReadError ==
  /\ \E self \in {c \in Readers : readers[c].pc = "reading"} :
     \E r \in {ReadFailure(processors[ProcessorOf(self)],
                           readers[self].delivered)} :
        /\ readers' =
             [readers EXCEPT ![self] =
                [@ EXCEPT !.pc = r.pc, !.delivered = r.delivered]]
  /\ UNCHANGED processors
  /\ UNCHANGED <<streamVars, apiVars, cfgVars, callVars, supaVars, sideVars>>

PairNext == PairReadChunk \/ PairReadDone \/ PairReadError

\* streamReader was called twice, each time with a response that is ok and
\* has a body; neither call has read anything yet.
PairInit ==
  /\ NoThrow
  /\ readers \in
       [Readers ->
          [content : PairBodies(PairMaxLines), pos : {0}, pending : {<<>>},
           delivered : {<<>>}, pc : {"reading"}]]
  /\ processors = [c \in Readers |-> <<>>]
  /\ CallIdle
  /\ SupaIdle
  /\ ChunksIdle
  /\ baseUrl = DefaultBaseUrl
  /\ apiKey = ""
  /\ op = "none"
  /\ wantStream = FALSE
  /\ hasCb = FALSE
  /\ apiPc = "idle"
  /\ attempts = 0
  /\ requests = <<>>
  /\ status = 0
  /\ bodyParsed = FALSE
  /\ outcome = NoOutcome
  /\ resOk = FALSE
  /\ hasBody = TRUE
  /\ content = <<>>
  /\ pos = 0
  /\ pending = <<>>
  /\ buffer = <<>>
  /\ delivered = <<>>
  /\ srPc = "idle"
  /\ lastRead = "none"
  /\ splitInsideLine = FALSE

SpecPair == PairInit /\ [][PairNext]_vars

\* ------------------------------------------------------------- Supabase

Callers == 1..NumCallers

\* The promise of run j settles: every caller that was returned it
\* settles the same way.
SettleWaiting(j, how) ==
  [c \in Callers |->
     IF callers[c] = "waiting" /\ awaited[c] = j THEN how ELSE callers[c]]

\* An init that starts over whether or not a run is under way.
InFlightIgnored(p) == FALSE

\* if (Supabase.initPromise)
InFlight(p) == p # 0

\* Supabase.init(), up to its return.
SupabaseInit ==
  /\ initCalls < MaxInitCalls
  /\ \E c \in Callers :
       /\ callers[c] # "waiting"
       /\ IF instance
          THEN /\ callers' = [callers EXCEPT ![c] = "resolved"]
               /\ UNCHANGED <<initPromise, initJobs, awaited>>
          ELSE IF InFlight(initPromise)
          THEN /\ callers' =
                    [callers EXCEPT ![c] =
                       IF initJobs[initPromise] \in {"resolved", "rejected"}
                       THEN initJobs[initPromise] ELSE "waiting"]
               /\ awaited' = [awaited EXCEPT ![c] = initPromise]
               /\ UNCHANGED <<initPromise, initJobs>>
          ELSE /\ callers' = [callers EXCEPT ![c] = "waiting"]
               /\ awaited' = [awaited EXCEPT ![c] = Len(initJobs) + 1]
               /\ initPromise' = Len(initJobs) + 1
               /\ initJobs' = Append(initJobs, "import")
  /\ initCalls' = initCalls + 1
  /\ UNCHANGED <<instance, anonKeyFetches, clientsCreated>>
  /\ UNCHANGED <<streamVars, apiVars, cfgVars, callVars, pairVars, sideVars>>

\* await import("@supabase/supabase-js") resolves; fetch is called.
ImportResolves ==
  /\ \E j \in DOMAIN initJobs :
       /\ initJobs[j] = "import"
       /\ initJobs' = [initJobs EXCEPT ![j] = "fetch"]
  /\ anonKeyFetches' = anonKeyFetches + 1
  /\ UNCHANGED <<instance, initPromise, callers, awaited, initCalls,
                 clientsCreated>>
  /\ UNCHANGED <<streamVars, apiVars, cfgVars, callVars, pairVars, sideVars>>

\* await import(...) rejects: the statement is outside the try, so the
\* async function rejects and its finally block is never entered.
ImportRejects ==
  /\ \E j \in DOMAIN initJobs :
       /\ initJobs[j] = "import"
       /\ initJobs' = [initJobs EXCEPT ![j] = "rejected"]
       /\ callers' = SettleWaiting(j, "rejected")
  /\ UNCHANGED <<instance, initPromise, awaited, initCalls, anonKeyFetches,
                 clientsCreated>>
  /\ UNCHANGED <<streamVars, apiVars, cfgVars, callVars, pairVars, sideVars>>

\* catch (error) { Promise.reject("Failed to initialize ..." + error); }
\* The rejected promise is made and dropped: the block neither throws nor
\* returns it, and the async function goes on to resolve.
CatchSettles == "resolved"

\* A finally block that leaves the promise where it is.
PromiseKept(p) == p

\* finally { Supabase.initPromise = undefined; }
PromiseCleared(p) == 0

\* The try block of run j throws: catch, then finally, then the function
\* returns.
InitFails(j) ==
  /\ initJobs' = [initJobs EXCEPT ![j] = CatchSettles]
  /\ initPromise' = PromiseCleared(initPromise)
  /\ callers' = SettleWaiting(j, CatchSettles)
  /\ UNCHANGED <<instance, clientsCreated>>

\* await fetch(".../data/anon_key") settles.
AnonKeyFetchSettles ==
  /\ \E j \in DOMAIN initJobs :
       /\ initJobs[j] = "fetch"
       /\ \E result \in {"ok", "notOk", "rejected"} :
            IF result = "ok"
            THEN /\ initJobs' = [initJobs EXCEPT ![j] = "json"]
                 /\ UNCHANGED <<instance, initPromise, callers, clientsCreated>>
            ELSE InitFails(j)
  /\ UNCHANGED <<awaited, initCalls, anonKeyFetches>>
  /\ UNCHANGED <<streamVars, apiVars, cfgVars, callVars, pairVars, sideVars>>

\* await response.json() settles; on a parsed body createClient is called.
AnonKeyParsed ==
  /\ \E j \in DOMAIN initJobs :
       /\ initJobs[j] = "json"
       /\ \E result \in {"parsed", "syntaxError"} :
            IF result = "parsed"
            THEN /\ instance' = TRUE
                 /\ clientsCreated' = clientsCreated + 1
                 /\ initJobs' = [initJobs EXCEPT ![j] = "resolved"]
                 /\ initPromise' = PromiseCleared(initPromise)
                 /\ callers' = SettleWaiting(j, "resolved")
            ELSE InitFails(j)
  /\ UNCHANGED <<awaited, initCalls, anonKeyFetches>>
  /\ UNCHANGED <<streamVars, apiVars, cfgVars, callVars, pairVars, sideVars>>

\* static get client(): throws when no instance is set.
ClientGetterThrows == ~instance

SupaNext ==
  \/ SupabaseInit
  \/ ImportResolves
  \/ ImportRejects
  \/ AnonKeyFetchSettles
  \/ AnonKeyParsed

SupaInit ==
  /\ ChunksIdle
  /\ NoThrow
  /\ instance = FALSE
  /\ initPromise = 0
  /\ initJobs = <<>>
  /\ callers = [c \in Callers |-> "idle"]
  /\ awaited = [c \in Callers |-> 0]
  /\ initCalls = 0
  /\ anonKeyFetches = 0
  /\ clientsCreated = 0
  /\ CallIdle
  /\ PairIdle
  /\ baseUrl = DefaultBaseUrl
  /\ apiKey = ""
  /\ op = "none"
  /\ wantStream = FALSE
  /\ hasCb = FALSE
  /\ apiPc = "idle"
  /\ attempts = 0
  /\ requests = <<>>
  /\ status = 0
  /\ bodyParsed = FALSE
  /\ outcome = NoOutcome
  /\ resOk = FALSE
  /\ hasBody = TRUE
  /\ content = <<>>
  /\ pos = 0
  /\ pending = <<>>
  /\ buffer = <<>>
  /\ delivered = <<>>
  /\ srPc = "idle"
  /\ lastRead = "none"
  /\ splitInsideLine = FALSE

SpecSupa == SupaInit /\ [][SupaNext]_vars

\* ------------------------------------- the two versions of streamReader
\* The stream as reader.read() hands it out: a sequence of chunks.  The
\* line-buffered streamReader and the per-chunk streamReader of
\* utils/stream-reader.ts each read it, with the same callback.

\* The largest number of chunks of such a stream.
MaxChunks == 2

\* Chunks of one JSON object and no newline, and chunks of one line with
\* its newline.
ObjectChunks == {RecA, RecB}
LineChunks ==
  {t \o <<NL>> : t \in {RecA, NotJson, BlankLine, FeedPadded, AccentStr}}
ChunkTexts == ObjectChunks \cup LineChunks

ChunkSeqs == UNION {[1..k -> ChunkTexts] : k \in 0..MaxChunks}

RECURSIVE Flatten(_)
Flatten(cs) == IF cs = <<>> THEN <<>> ELSE Head(cs) \o Flatten(Tail(cs))

\* processChunk(chunk, cb) of the per-chunk reader:
\* try { cb(chunk ? JSON.parse(chunk.trim()) : null) } catch (_error) {}
\* The result is the callback's invocations; what cb throws is caught too.
ProcessWholeChunk(chunk, out) ==
  IF chunk = <<>> THEN Append(out, Null)
  ELSE LET p == JSONParse(Trim(chunk))
       IN IF p.ok THEN Append(out, p.value) ELSE out

\* The line-buffered reader: reader.read() settles with the next chunk.
ReadNextChunk ==
  /\ chunksRead < Len(chunks)
  /\ ReadBytes(Len(chunks[chunksRead + 1]))
  /\ chunksRead' = chunksRead + 1
  /\ UNCHANGED <<chunks, perChunk>>

\* The per-chunk reader: if (res.ok) { reader = res.body?.getReader() ...
PerChunkEnter ==
  /\ perChunk.pc = "called"
  /\ perChunk' =
       [perChunk EXCEPT !.pc = IF resOk /\ hasBody THEN "reading"
                               ELSE "resolved"]
  /\ UNCHANGED <<streamVars, apiVars, cfgVars, callVars, pairVars, supaVars>>
  /\ UNCHANGED <<cbThrows, chunks, chunksRead>>

\* The per-chunk reader: reader.read() settles with the next chunk;
\* decoder.decode(value, { stream: true }), processChunk(chunk, cb).
PerChunkRead ==
  /\ perChunk.pc = "reading"
  /\ perChunk.read < Len(chunks)
  /\ \E d \in {Decode(perChunk.pending, chunks[perChunk.read + 1], TRUE)} :
       perChunk' =
         [perChunk EXCEPT !.read = @ + 1,
                          !.pending = d.pending,
                          !.delivered = ProcessWholeChunk(d.text, @)]
  /\ UNCHANGED <<streamVars, apiVars, cfgVars, callVars, pairVars, supaVars>>
  /\ UNCHANGED <<cbThrows, chunks, chunksRead>>

\* The per-chunk reader: reader.read() settles with done; break, return.
PerChunkDone ==
  /\ perChunk.pc = "reading"
  /\ perChunk.read = Len(chunks)
  /\ perChunk' = [perChunk EXCEPT !.pc = "resolved"]
  /\ UNCHANGED <<streamVars, apiVars, cfgVars, callVars, pairVars, supaVars>>
  /\ UNCHANGED <<cbThrows, chunks, chunksRead>>

ChunkedNext ==
  \/ StreamReaderEnter
  \/ ReadNextChunk
  \/ ReadDone
  \/ PerChunkEnter
  \/ PerChunkRead
  \/ PerChunkDone

\* Both versions called on a response whose body arrives as chunks.
ChunkedInit ==
  /\ CallIdle
  /\ PairIdle
  /\ SupaIdle
  /\ baseUrl = DefaultBaseUrl
  /\ apiKey = ""
  /\ op = "none"
  /\ wantStream = FALSE
  /\ hasCb = FALSE
  /\ apiPc = "idle"
  /\ attempts = 0
  /\ requests = <<>>
  /\ status = 0
  /\ bodyParsed = FALSE
  /\ outcome = NoOutcome
  /\ cbThrows \in CallbackThrowSets
  /\ chunks \in ChunkSeqs
  /\ chunksRead = 0
  /\ perChunk = [PerChunkIdle EXCEPT !.pc = "called"]
  /\ resOk \in BOOLEAN
  /\ hasBody \in BOOLEAN
  /\ content = Flatten(chunks)
  /\ pos = 0
  /\ pending = <<>>
  /\ buffer = <<>>
  /\ delivered = <<>>
  /\ srPc = "called"
  /\ lastRead = "none"
  /\ splitInsideLine = FALSE

SpecChunked == ChunkedInit /\ [][ChunkedNext]_vars

\* ------------------------------------------------- the body as a whole
\* What the body says when read in one piece: the reference the chunked
\* reading is compared with.

WholeText == Decode(<<>>, content, FALSE).text

RECURSIVE CompleteLines(_)
CompleteLines(text) ==
  LET b == IndexOf(text, NL)
  IN IF b = 0 THEN <<>>
     ELSE <<SubSeq(text, 1, b - 1)>>
            \o CompleteLines(SubSeq(text, b + 1, Len(text)))

RECURSIVE LastPartial(_)
LastPartial(text) ==
  LET b == IndexOf(text, NL)
  IN IF b = 0 THEN text ELSE LastPartial(SubSeq(text, b + 1, Len(text)))

\* Every line of the text, the unterminated last one included when not empty.
AllLines(text) ==
  CompleteLines(text)
    \o (IF text = <<>> \/ text[Len(text)] = NL THEN <<>>
        ELSE <<LastPartial(text)>>)

WellFormed(line) == JSONParse(line).ok

ParsedOrNothing(p) == IF p.ok THEN <<p.value>> ELSE <<>>

\* The records of the well-formed lines among lines, in order.
RECURSIVE RecordsOf(_)
RecordsOf(lines) ==
  IF lines = <<>> THEN <<>>
  ELSE ParsedOrNothing(JSONParse(Head(lines))) \o RecordsOf(Tail(lines))

RECURSIVE IsSubseq(_, _)
IsSubseq(a, b) ==
  IF a = <<>> THEN TRUE
  ELSE IF b = <<>> THEN FALSE
  ELSE IF Head(a) = Head(b) THEN IsSubseq(Tail(a), Tail(b))
  ELSE IsSubseq(a, Tail(b))

Streamed == resOk /\ hasBody

\* The text the decoder has handed to the line processor so far.
Received ==
  IF lastRead = "done" THEN WholeText
  ELSE Decode(<<>>, SubSeq(content, 1, pos), TRUE).text

\* The body is a sequence of newline-terminated JSON records.
JsonLinesBody ==
  \E text \in {WholeText} :
    /\ LastPartial(text) = <<>>
    /\ \E ls \in {CompleteLines(text)} : \A i \in DOMAIN ls : WellFormed(ls[i])

ExampleTwoRecords == RecA \o <<NL>> \o RecB \o <<NL>>
ExampleMalformedMiddle ==
  RecA \o <<NL>> \o NotJson \o <<NL>> \o RecB \o <<NL>>

\* ------------------------------------------------------------------ claims

\* C1: whatever the chunks the body arrives in, a body of newline-terminated
\* JSON records has been delivered, when streamReader resolves, as exactly
\* its records, one callback invocation per line, in line order.
C1_ChunkSplitInvariance ==
  (srPc = "resolved" /\ Streamed /\ JsonLinesBody)
    => \E ls \in {CompleteLines(WholeText)} :
         delivered = [i \in DOMAIN ls |-> JSONParse(ls[i]).value]

C1_Witness ==
  /\ srPc = "resolved"
  /\ Streamed
  /\ content = ExampleTwoRecords
  /\ splitInsideLine
  /\ delivered = <<RecA, RecB>>

\* C2: when streamReader resolves, a well-formed last line without a
\* newline has been delivered too: the records delivered are those of every
\* line of the body.
C2_TrailingPartialLine ==
  (srPc = "resolved" /\ Streamed)
    => delivered = RecordsOf(AllLines(WholeText))

\* C3: a malformed complete line is dropped; it neither rejects the reader
\* nor keeps the well-formed lines around it from being delivered.
C3_MalformedLineSkip ==
  /\ (srPc = "rejected" => lastRead = "error")
  /\ (srPc = "resolved" /\ Streamed)
       => \E ls \in {CompleteLines(WholeText)} :
            (\E i \in DOMAIN ls : ~WellFormed(ls[i]))
              => delivered = RecordsOf(ls)

C3_Witness ==
  /\ srPc = "resolved"
  /\ content = ExampleMalformedMiddle
  /\ lastRead = "done"
  /\ delivered = <<RecA, RecB>>

\* C4: at every moment the records delivered so far are a subsequence of
\* the records of the body's lines, in line order: nothing twice, nothing
\* out of order.
C4_OrderedAtMostOnce ==
  delivered # <<>> => IsSubseq(delivered, RecordsOf(AllLines(WholeText)))

C4_Witness ==
  /\ srPc = "reading"
  /\ Len(delivered) = 2
  /\ delivered[1] = delivered[2]
  /\ Len(CompleteLines(WholeText)) = 3
  /\ pos < Len(content)

\* C5: every value the callback has received is the parsed value of one
\* complete, well-formed line of the body; never a fragment, never unparsed
\* text, never a null placeholder.
C5_OnlyWellFormedRecords ==
  delivered # <<>>
    => \E ls \in {CompleteLines(WholeText)} :
         \A i \in DOMAIN delivered :
           /\ delivered[i] # Null
           /\ \E j \in DOMAIN ls :
                /\ WellFormed(ls[j])
                /\ delivered[i] = JSONParse(ls[j]).value

C5_Witness ==
  /\ srPc = "resolved"
  /\ \E j \in DOMAIN CompleteLines(WholeText) :
       ~WellFormed(CompleteLines(WholeText)[j])
  /\ LastPartial(WholeText) = RecB
  /\ delivered = <<<<"1", "2">>>>

\* C6: a body of zero bytes, or a response without a body reader, gets no
\* callback invocation, and streamReader resolves.
C6_EmptyStream ==
  (content = <<>> \/ ~hasBody)
    => /\ delivered = <<>>
       /\ (srPc = "rejected" => lastRead = "error")
       /\ (lastRead = "done" => srPc = "resolved")

C6_Witness ==
  /\ srPc = "resolved"
  /\ Streamed
  /\ content = <<>>
  /\ lastRead = "done"
  /\ delivered = <<>>

\* C9: a read that fails rejects streamReader at once; the records delivered
\* before it stay delivered, and a rejected reader delivers nothing more.
C9_MidStreamFailure ==
  [][/\ (lastRead' = "error" /\ lastRead # "error")
          => (srPc' = "rejected" /\ delivered' = delivered)
     /\ srPc = "rejected" => (srPc' = "rejected" /\ delivered' = delivered)]_vars

C9_Witness ==
  /\ srPc = "rejected"
  /\ lastRead = "error"
  /\ Len(delivered) = 2
  /\ pos < Len(content)
  /\ buffer # <<>>

C8_BufferedHttpStatus ==
  (apiPc = "done" /\ Helper(op) # "fetch" /\ ~wantStream /\ status # 0)
    => IF status \in 200..299
       THEN outcome.kind \in {"json", "syntaxError", "response"}
       ELSE /\ outcome.kind = "httpError"
            /\ outcome.status = status
            /\ outcome.action =
                 <<CASE Method(op) = "POST" -> "post to"
                     [] Method(op) = "GET" -> "get from"
                     [] Method(op) = "DELETE" -> "delete from",
                   Endpoint(op)>>
            /\ ~bodyParsed

C8_Witness ==
  /\ apiPc = "done"
  /\ op = "getCredits"
  /\ status = 300
  /\ attempts = 3
  /\ outcome = [kind |-> "httpError",
                action |-> <<"get from", "data/credits">>, status |-> 300]

\* C10: a call never makes more than 5 attempts, and when every attempt
\* fails on the network the failure is surfaced with the fifth.
C10_RetryBound ==
  /\ attempts <= 5
  /\ Len(requests) = attempts
  /\ (outcome.kind = "transportError" /\ Helper(op) # "fetch")
       => (attempts = 5 /\ status = 0)
  /\ (attempts = 5 /\ status = 0)
       => (apiPc = "done" /\ outcome.kind = "transportError")

C10_Witness ==
  /\ apiPc = "done"
  /\ outcome.kind = "transportError"
  /\ Len(requests) = 5
  /\ op = "deleteData"

\* C11: whatever the operation, a network failure is surfaced only once
\* the attempts of the backoff policy are used up, never with the first.
C11_NetworkFailureRetried ==
  outcome.kind = "transportError" => attempts = 5

\* C12 as stated: a call answered with a 4xx status has sent exactly one
\* request.
C12_ExactlyOneRequest ==
  status \in 400..499 => Len(requests) = 1

\* C12, amended: once an attempt was answered with a 4xx status the call
\* makes no further attempt; the answered attempt is its last request, and
\* its only one when no earlier attempt failed on the network.
C12_NoRetryAfter4xx ==
  [][(status \in 400..499) => (requests' = requests)]_vars

C12_Witness ==
  /\ apiPc = "done"
  /\ op = "scrapeUrl"
  /\ status = 404
  /\ Len(requests) = 1
  /\ outcome.kind = "httpError"

C13_FailFastConstruction ==
  /\ ctorPc # "new"
       => (ctorPc = "thrown"
             <=> (keyArg \notin Credentials /\ envKey \notin Credentials))
  /\ ctorPc = "thrown" => (requests = <<>> /\ op = "none")
  /\ (ctorPc = "constructed" /\ keyArg = "null") => apiKey = envKey
  /\ \A i \in DOMAIN requests :
       requests[i].authorization
         = <<"Bearer", IF keyArg \in Credentials THEN keyArg ELSE envKey>>

C13_Witness ==
  /\ ctorPc = "constructed"
  /\ keyArg = "null"
  /\ envKey = "key-B"
  /\ Len(requests) = 1
  /\ requests[1].authorization = <<"Bearer", "key-B">>

\* C14: the payload of scrapeUrl has limit 1 when params has no limit and
\* the limit of params otherwise, and every other key of params with the
\* value params gives it.
C14_ScrapeDefaultLimit ==
  op = "scrapeUrl"
    => /\ "limit" \in DOMAIN payload
       /\ payload["limit"]
            = (IF "limit" \in DOMAIN params THEN params["limit"] ELSE 1)
       /\ \A k \in DOMAIN params : k \in DOMAIN payload /\ payload[k] = params[k]
       /\ DOMAIN payload = DOMAIN params \cup {"url", "limit"}

C14_Witness ==
  /\ op = "scrapeUrl"
  /\ "limit" \in DOMAIN params
  /\ params["limit"] = 5
  /\ payload["limit"] = 5
  /\ "return_format" \in DOMAIN params
  /\ payload["return_format"] = "raw"

\* C15: crawlUrl and links send application/jsonl, hand the response to
\* the stream reader and resolve with no value exactly when stream is true
\* and a callback is given; otherwise they send application/json and the
\* callback is never invoked.
C15_DualModeDispatch ==
  op \in DualModeOps
    => /\ \A i \in DOMAIN requests :
            requests[i].contentType
              = (IF wantStream /\ hasCb THEN "application/jsonl"
                 ELSE "application/json")
       /\ (wantStream /\ hasCb)
            => /\ (status # 0) => srPc # "idle"
               /\ (apiPc = "done" /\ status # 0)
                    => outcome.kind \in {"void", "streamError"}
       /\ ~(wantStream /\ hasCb)
            => /\ srPc = "idle"
               /\ delivered = <<>>
               /\ outcome.kind # "void"

C15_Witness ==
  /\ op = "links"
  /\ wantStream
  /\ hasCb
  /\ apiPc = "done"
  /\ outcome.kind = "void"
  /\ delivered # <<>>
  /\ requests[1].contentType = "application/jsonl"

\* C19: once the reader's promise has settled, and so once the streaming
\* call has, the callback is not invoked again; every record was delivered
\* before.
C19_CallbacksPrecedeSettlement ==
  [][(srPc \in {"resolved", "rejected"} \/ apiPc = "done")
       => (delivered' = delivered)]_vars

C19_Witness ==
  /\ op = "crawlUrl"
  /\ apiPc = "done"
  /\ srPc = "rejected"
  /\ outcome.kind = "streamError"
  /\ delivered # <<>>

\* What a reader has been given of its own body, read in one piece.
OwnText(self) ==
  Decode(<<>>, SubSeq(readers[self].content, 1, readers[self].pos), TRUE).text

\* C16: each of two concurrent readers has delivered exactly the records of
\* the complete lines it has itself been given, whatever the other has read
\* and however either has ended, and what its processor holds back is the
\* unfinished line of its own text.
C16_ConcurrentStreamsIsolated ==
  \A self \in Readers :
    \E own \in {OwnText(self)} :
      /\ readers[self].delivered = RecordsOf(CompleteLines(own))
      /\ readers[self].pc = "reading" => processors[self] = LastPartial(own)

C16_Witness ==
  /\ readers[1].pc = "rejected"
  /\ readers[1].pos = 3
  /\ readers[1].content = RecA \o <<NL>>
  /\ processors[1] # <<>>
  /\ readers[2].pc = "resolved"
  /\ readers[2].content = RecA \o <<NL>>
  /\ readers[2].delivered # <<>>

\* C18: when every read settles with a chunk or with done and the body
\* ends, streamReader resolves; it resolves with no value, the records
\* having gone to the callback.
C18_StreamingReadTerminates == <>(srPc = "resolved")

C18_Witness ==
  /\ srPc = "resolved"
  /\ lastRead = "done"
  /\ splitInsideLine
  /\ Len(delivered) = 2

\* C20: a caller whose init() promise has resolved finds the client
\* getter returning a client.
C20_InitPostcondition ==
  \A c \in Callers : callers[c] = "resolved" => ~ClientGetterThrows

\* C23: crawlUrl or links called with stream true and no callback resolves
\* with the response handle when the status is 2xx, and fails with the
\* error of the status otherwise.
C23_StreamingWithoutCallback ==
  (op \in DualModeOps /\ wantStream /\ ~hasCb /\ apiPc = "done" /\ status # 0)
    => IF status \in 200..299
       THEN outcome.kind = "response"
       ELSE outcome.kind = "httpError" /\ outcome.status = status

\* C29: the attempts of one call through _apiPost, _apiGet or _apiDelete
\* are the same request: same URL, same headers.
C29_AttemptsIdentical ==
  Helper(op) # "fetch"
    => \A i \in DOMAIN requests : requests[i] = requests[1]

\* The runs of init's async function that have not settled.
RunsInFlight ==
  {j \in DOMAIN initJobs : initJobs[j] \in {"import", "fetch", "json"}}

\* C27: at most one initialization is in flight; a call of init() made
\* while one is in flight follows it and starts nothing; once the instance
\* is set it stays set, is assigned no second time, and a call of init()
\* resolves with no run started and no fetch made.
C27_SupabaseSingleton ==
  /\ [](Cardinality(RunsInFlight) <= 1 /\ clientsCreated <= 1)
  /\ [][/\ instance => (instance' /\ clientsCreated' = clientsCreated)
        /\ (initCalls' # initCalls /\ RunsInFlight # {})
             => /\ initJobs' = initJobs
                /\ anonKeyFetches' = anonKeyFetches
                /\ \E c \in Callers :
                     /\ callers'[c] = "waiting"
                     /\ awaited'[c] \in RunsInFlight
                     /\ callers[c] # "waiting"
        /\ (initCalls' # initCalls /\ instance)
             => /\ initJobs' = initJobs
                /\ anonKeyFetches' = anonKeyFetches
                /\ \E c \in Callers :
                     callers[c] # "waiting" /\ callers'[c] = "resolved"]_vars

C27_Witness ==
  /\ instance
  /\ clientsCreated = 1
  /\ anonKeyFetches = 1
  /\ initCalls = 3
  /\ \A c \in Callers : callers[c] = "resolved"

\* C28: when the fetch of the anon key rejects or is answered with a status
\* that is not ok, initPromise is cleared and instance stays unset, and the
\* next call of init() starts a new run, which fetches again.
C28_ReinitAfterFailure ==
  [][/\ (\E j \in DOMAIN initJobs :
            initJobs[j] = "fetch" /\ initJobs'[j] \notin {"fetch", "json"})
          => (initPromise' = 0 /\ ~instance')
     /\ (initCalls' # initCalls /\ ~instance /\ RunsInFlight = {}
           /\ initJobs # <<>> /\ initJobs[Len(initJobs)] = "resolved")
          => /\ Len(initJobs') = Len(initJobs) + 1
             /\ initJobs'[Len(initJobs')] = "import"
             /\ initPromise' = Len(initJobs')]_vars

C28_Witness ==
  /\ Len(initJobs) = 2
  /\ initJobs[1] = "resolved"
  /\ initJobs[2] = "fetch"
  /\ anonKeyFetches = 2
  /\ ~instance

\* C21: the data of the body transform sends is the list given as its
\* first argument, whole and in order.
C21_TransformSendsArgument ==
  op = "transform" => ("data" \in DOMAIN payload /\ payload["data"] = firstArg)

\* The entries of the query, as a set.
QueryEntries == {query[i] : i \in DOMAIN query}

\* C24: every option given to createSignedUrl, the url included, is in the
\* query of the request with its value, numbers in decimal.
C24_SignUrlQueryComplete ==
  op = "createSignedUrl"
    => /\ \A k \in DOMAIN params :
            <<k, IF k \in {"page", "limit", "expiresIn"}
                 THEN NumberToString(params[k]) ELSE params[k]>> \in QueryEntries
       /\ firstArg # Undefined => <<"url", firstArg>> \in QueryEntries


\* C25: a callback that throws on a record does not reject streamReader and
\* does not stop the reading: the callback is still invoked for every
\* well-formed complete line received, the ones after the throw included.
C25_CallbackExceptionsAbsorbed ==
  cbThrows # {}
    => /\ srPc # "rejected"
       /\ delivered = RecordsOf(CompleteLines(Received))

C25_Witness ==
  /\ cbThrows = {RecA}
  /\ content = ExampleTwoRecords
  /\ srPc = "resolved"
  /\ delivered = <<RecA, RecB>>

\* C26: after every chunk the buffer of the line processor has no newline
\* and is the text received so far that follows the last newline.
C26_BufferInvariant ==
  /\ IndexOf(buffer, NL) = 0
  /\ buffer = LastPartial(Received)

C26_Witness ==
  /\ srPc = "reading"
  /\ lastRead = "chunk"
  /\ delivered # <<>>
  /\ buffer # <<>>


\* A chunk that is one complete JSON object and has no newline.
ObjectChunk(c) ==
  /\ IndexOf(c, NL) = 0
  /\ c # <<>>
  /\ Head(c) = "{"
  /\ JSONParse(c).ok

\* A chunk that is not empty and is one line ended by its newline.
LineChunk(c) == c # <<>> /\ IndexOf(c, NL) = Len(c)

\* C22: on a stream whose chunks are each one complete JSON object without
\* a newline, the line-buffered streamReader has invoked the callback, when
\* it resolves, once per chunk with the chunk's object, in chunk order.
C22_ChunkPerObject ==
  (srPc = "resolved" /\ Streamed
     /\ \A i \in DOMAIN chunks : ObjectChunk(chunks[i]))
    => delivered = [i \in DOMAIN chunks |-> JSONParse(chunks[i]).value]

\* C30: on a stream whose chunks are each one non-empty newline-terminated
\* line, the per-chunk streamReader and the line-buffered streamReader have
\* invoked the callback, when both have resolved, with the same records in
\* the same order.
C30_ReadersEquivalent ==
  (srPc = "resolved" /\ perChunk.pc = "resolved"
     /\ \A i \in DOMAIN chunks : LineChunk(chunks[i]))
    => delivered = perChunk.delivered

=============================================================================
